---- MODULE Spec2Model ----
(***************************************************************************)
(* Allele-counting engine of scCNVSim (sccnvsim/alignments/afc/core.py and *)
(* sccnvsim/utils/sam.py): the read qualifier check_read, the chromosome   *)
(* name retry of sam_fetch, the per-SNP pileup plp_snp with its QC gate,   *)
(* the per-region fold fc_fet1 and the worker loop fc_features.            *)
(***************************************************************************)
EXTENDS Integers, Sequences, FiniteSets, TLC

(***************************************************************************)
(* Bounds of the model.                                                    *)
(***************************************************************************)
\* mapping qualities and minimum mapping qualities range over 0..MaxMapq
MaxMapq == 1
\* aligned lengths and minimum aligned lengths range over 0..MaxLen
MaxLen == 1
\* SAM flags and flag masks are FlagBits bits wide
FlagBits == 2
\* aggregate base counts of the QC harness range over 0..MaxCount
MaxCount == 10
\* the full region list holds at most MaxReg regions
MaxReg == 2
\* the iterators of one SNP's pileup yield at most MaxReads reads together
MaxReads == 2
\* the dispatcher launches at most MaxWorkers workers
MaxWorkers == 2

(***************************************************************************)
(* Python values.                                                          *)
(***************************************************************************)
None == "None"

\* seq[i] with Python's indexing: 0-based, negative indices count from the end
PyIdx(seq, i) == IF i >= 0 THEN seq[i + 1] ELSE seq[Len(seq) + i + 1]

RECURSIVE BitAnd(_, _)
\* a & b on non-negative integers
BitAnd(a, b) ==
    IF a = 0 \/ b = 0 THEN 0
    ELSE (IF a % 2 = 1 /\ b % 2 = 1 THEN 1 ELSE 0) + 2 * BitAnd(a \div 2, b \div 2)

RECURSIVE Pow2(_)
Pow2(n) == IF n = 0 THEN 1 ELSE 2 * Pow2(n - 1)

\* sam.py: flag bits
BAM_FPAIRED == 1
BAM_FPROPER_PAIR == 2

\* read.has_tag(tag): the read's tags are a function from the tag names it carries
has_tag(read, tag) == tag \in DOMAIN read.tags

(***************************************************************************)
(* check_read (core.py 17-33); utils/sam.py has a check_read of its own.   *)
(* Python truth values: a mask of 0 and a tag name of None are false.      *)
(***************************************************************************)
check_read_incl_all_bits(read, cf) ==
    IF read.mapq < cf.min_mapq THEN -2
    ELSE IF cf.excl_flag # 0 /\ BitAnd(read.flag, cf.excl_flag) # 0 THEN -3
    ELSE IF cf.incl_flag # 0 /\ BitAnd(read.flag, cf.incl_flag) # cf.incl_flag THEN -4
    ELSE IF cf.no_orphan /\ BitAnd(read.flag, BAM_FPAIRED) # 0
            /\ BitAnd(read.flag, BAM_FPROPER_PAIR) = 0 THEN -5
    ELSE IF cf.cell_tag # None /\ ~has_tag(read, cf.cell_tag) THEN -11
    ELSE IF cf.umi_tag # None /\ ~has_tag(read, cf.umi_tag) THEN -12
    ELSE IF Len(read.positions) < cf.min_len THEN -21
    ELSE 0

check_read_tags_before_orphan(read, cf) ==
    IF read.mapq < cf.min_mapq THEN -2
    ELSE IF cf.excl_flag # 0 /\ BitAnd(read.flag, cf.excl_flag) # 0 THEN -3
    ELSE IF cf.incl_flag # 0 /\ BitAnd(read.flag, cf.incl_flag) = 0 THEN -4
    ELSE IF cf.cell_tag # None /\ ~has_tag(read, cf.cell_tag) THEN -11
    ELSE IF cf.umi_tag # None /\ ~has_tag(read, cf.umi_tag) THEN -12
    ELSE IF cf.no_orphan /\ BitAnd(read.flag, BAM_FPAIRED) # 0
            /\ BitAnd(read.flag, BAM_FPROPER_PAIR) = 0 THEN -5
    ELSE IF Len(read.positions) < cf.min_len THEN -21
    ELSE 0

check_read_orphan_ignored(read, cf) ==
    IF read.mapq < cf.min_mapq THEN -2
    ELSE IF cf.excl_flag # 0 /\ BitAnd(read.flag, cf.excl_flag) # 0 THEN -3
    ELSE IF cf.incl_flag # 0 /\ BitAnd(read.flag, cf.incl_flag) = 0 THEN -4
    ELSE IF cf.cell_tag # None /\ ~has_tag(read, cf.cell_tag) THEN -11
    ELSE IF cf.umi_tag # None /\ ~has_tag(read, cf.umi_tag) THEN -12
    ELSE IF Len(read.positions) < cf.min_len THEN -21
    ELSE 0

check_read(read, cf) ==
    IF read.mapq < cf.min_mapq THEN -2
    ELSE IF cf.excl_flag # 0 /\ BitAnd(read.flag, cf.excl_flag) # 0 THEN -3
    ELSE IF cf.incl_flag # 0 /\ BitAnd(read.flag, cf.incl_flag) = 0 THEN -4
    ELSE IF cf.no_orphan /\ BitAnd(read.flag, BAM_FPAIRED) # 0
            /\ BitAnd(read.flag, BAM_FPROPER_PAIR) = 0 THEN -5
    ELSE IF cf.cell_tag # None /\ ~has_tag(read, cf.cell_tag) THEN -11
    ELSE IF cf.umi_tag # None /\ ~has_tag(read, cf.umi_tag) THEN -12
    ELSE IF Len(read.positions) < cf.min_len THEN -21
    ELSE 0

\* check_read of utils/sam.py (sam.py 11-27)
sam_check_read(read, cf) ==
    IF read.mapq < cf.min_mapq THEN -2
    ELSE IF cf.excl_flag # 0 /\ BitAnd(read.flag, cf.excl_flag) # 0 THEN -3
    ELSE IF cf.incl_flag # 0 /\ BitAnd(read.flag, cf.incl_flag) = 0 THEN -4
    ELSE IF cf.no_orphan /\ BitAnd(read.flag, BAM_FPAIRED) # 0
            /\ BitAnd(read.flag, BAM_FPROPER_PAIR) = 0 THEN -5
    ELSE IF cf.cell_tag # None /\ ~has_tag(read, cf.cell_tag) THEN -11
    ELSE IF cf.umi_tag # None /\ ~has_tag(read, cf.umi_tag) THEN -12
    ELSE IF Len(read.positions) < cf.min_len THEN -21
    ELSE 0

(***************************************************************************)
(* sam_fetch (sam.py 111-148).  A chromosome name is the sequence of its   *)
(* characters.  An alignment file is the function from the names it can    *)
(* fetch to what pysam's fetch gives for them: "itr", an iterator, or      *)
(* "falsy", a result Python counts as false; fetch raises for every other  *)
(* name.  The worker always passes an integer start.                       *)
(***************************************************************************)
Chr == <<"c", "h", "r">>
startswith_chr(chrom) == Len(chrom) >= 3 /\ SubSeq(chrom, 1, 3) = Chr

\* sam.py 142: chrom[3:] if chrom.startswith("chr") else "chr" + chrom
alt_chrom_always_strip(chrom) == SubSeq(chrom, 4, Len(chrom))

alt_chrom(chrom) ==
    IF startswith_chr(chrom) THEN SubSeq(chrom, 4, Len(chrom)) ELSE Chr \o chrom

\* sam.fetch(chrom, start, end) of pysam: "raise", "falsy" or "itr"
py_fetch(sam, chrom, start, end) ==
    IF chrom \in DOMAIN sam THEN sam[chrom] ELSE "raise"

\* the iterator (itr = "itr") or None (itr = None), with the attempts made
sam_fetch_no_retry(sam, chrom, start, end) ==
    LET start0 == start - 1
        first == py_fetch(sam, chrom, start0, end)
    IN  [itr |-> IF first = "itr" THEN "itr" ELSE None,
         tried |-> << <<chrom, start0, end>> >>]

sam_fetch(sam, chrom, start, end) ==
    LET start0 == start - 1
        first == py_fetch(sam, chrom, start0, end)
        chrom2 == alt_chrom(chrom)
        second == py_fetch(sam, chrom2, start0, end)
    IN  IF first = "itr"
        THEN [itr |-> "itr", tried |-> << <<chrom, start0, end>> >>]
        ELSE [itr |-> IF second = "itr" THEN "itr" ELSE None,
              tried |-> << <<chrom, start0, end>>, <<chrom2, start0, end>> >>]

(***************************************************************************)
(* The SNP-level QC gate of plp_snp (core.py 203-211).  min_maf is the     *)
(* fraction num/den; for the fractions used here and counts up to 200 the  *)
(* float comparison minor < total * min_maf and the exact one agree.       *)
(***************************************************************************)
RECURSIVE SumSeq(_)
\* sum(seq)
SumSeq(seq) == IF seq = <<>> THEN 0 ELSE Head(seq) + SumSeq(Tail(seq))

Min(a, b) == IF a < b THEN a ELSE b

\* mcnt.base_idx of the SNP tally: the index of a base letter in tcount
base_idx(base) ==
    CASE base = "A" -> 0 [] base = "C" -> 1 [] base = "G" -> 2
      [] base = "T" -> 3 [] OTHER -> 4

snp_qc_major(tcount, snp, cf) ==
    LET snp_cnt == SumSeq(tcount)
        snp_ref_cnt == PyIdx(tcount, base_idx(snp.ref))
        snp_alt_cnt == PyIdx(tcount, base_idx(snp.alt))
        snp_major_cnt == IF snp_ref_cnt < snp_alt_cnt THEN snp_alt_cnt ELSE snp_ref_cnt
    IN  IF snp_cnt < cf.min_count THEN 3
        ELSE IF snp_major_cnt * cf.min_maf.den < snp_cnt * cf.min_maf.num THEN 5
        ELSE 0

snp_qc(tcount, snp, cf) ==
    LET snp_cnt == SumSeq(tcount)
        snp_ref_cnt == PyIdx(tcount, base_idx(snp.ref))
        snp_alt_cnt == PyIdx(tcount, base_idx(snp.alt))
        snp_minor_cnt == Min(snp_ref_cnt, snp_alt_cnt)
    IN  IF snp_cnt < cf.min_count THEN 3
        ELSE IF snp_minor_cnt * cf.min_maf.den < snp_cnt * cf.min_maf.num THEN 5
        ELSE 0

(***************************************************************************)
(* The SNP tally (mcount.MCount, design section 4.2).  cell_cnt maps each  *)
(* unit seen so far to its counters <<ref, alt, dup, oth>>; umi maps       *)
(* <<unit, UMI>> to the base first seen for it; bcount is the running      *)
(* per-letter total that stat() publishes as tcount.                       *)
(***************************************************************************)
Zero4 == <<0, 0, 0, 0>>
Zero5 == <<0, 0, 0, 0, 0>>
NoSnp == [chrom |-> <<>>, pos |-> 0, ref |-> None, alt |-> None]

\* the tally after reset(): bound to no SNP, every counter cleared
snp_reset ==
    [snp |-> NoSnp, cell_cnt |-> <<>>, umi |-> << >>, bcount |-> Zero5, tcount |-> Zero5]

\* seq[i] += 1 with Python's index i
Bump(seq, i) == [seq EXCEPT ![i + 1] = @ + 1]

\* add_snp(snp) resets the tally and binds it to snp; it returns 0
snp_add_snp(m, snp) == [ret |-> 0, m |-> [snp_reset EXCEPT !.snp = snp]]

\* the counter of a read's base at the SNP: 0 ref, 1 alt, 3 other
allele_of(snp, base) == IF base = snp.ref THEN 0 ELSE IF base = snp.alt THEN 1 ELSE 3

\* push_read(read, unit): -1 is fatal, -3 declines a read with no base at the SNP
snp_push_read(m, read, unit, cf) ==
    IF m.snp = NoSnp \/ read.fatal THEN [ret |-> -1, m |-> m]
    ELSE IF read.base = None THEN [ret |-> -3, m |-> m]
    ELSE
      LET cnt == IF unit \in DOMAIN m.cell_cnt THEN m.cell_cnt[unit] ELSE Zero4
          dedup == cf.umi_tag # None
          key == <<unit, IF dedup THEN read.tags[cf.umi_tag] ELSE None>>
          seen == dedup /\ key \in DOMAIN m.umi
          counted(k) ==
              [m EXCEPT !.cell_cnt = (unit :> Bump(cnt, k)) @@ m.cell_cnt,
                        !.bcount = Bump(m.bcount, base_idx(read.base)),
                        !.umi = IF dedup /\ ~seen THEN (key :> read.base) @@ m.umi
                                ELSE m.umi]
      IN  IF seen /\ m.umi[key] = read.base THEN [ret |-> 0, m |-> m]
          ELSE IF seen THEN [ret |-> 0, m |-> counted(2)]
          ELSE [ret |-> 0, m |-> counted(allele_of(m.snp, read.base))]

\* stat(): publishes the per-letter totals; fails on a tally bound to no SNP
snp_stat(m) ==
    IF m.snp = NoSnp THEN [ret |-> -1, m |-> m]
    ELSE [ret |-> 0, m |-> [m EXCEPT !.tcount = m.bcount]]

(***************************************************************************)
(* The feature aggregator (fcount.MCount, design section 4.3): cell_cnt    *)
(* maps each unit to allele_cnt, the region's running <<ref, alt, dup,     *)
(* oth>> over the SNP tallies pushed so far.                               *)
(***************************************************************************)
Range(seq) == {seq[i] : i \in 1..Len(seq)}

Add4(a, b) == [i \in 1..4 |-> a[i] + b[i]]

\* add_region(reg): zero totals for every configured unit
fet_add_region(fm, reg, cf) ==
    [region |-> reg.name, cell_cnt |-> [u \in Range(cf.samples) |-> Zero4]]

\* push_snp(tally): folds the tally's per-unit counters into the totals
fet_push_snp(fm, m) ==
    IF fm.region = None THEN [ret |-> -1, fm |-> fm]
    ELSE [ret |-> 0,
          fm |-> [fm EXCEPT !.cell_cnt =
                    [u \in DOMAIN fm.cell_cnt \cup DOMAIN m.cell_cnt |->
                        Add4(IF u \in DOMAIN fm.cell_cnt THEN fm.cell_cnt[u] ELSE Zero4,
                             IF u \in DOMAIN m.cell_cnt THEN m.cell_cnt[u] ELSE Zero4)]]]

\* stat(): fails on an aggregator bound to no region
fet_stat(fm) == IF fm.region = None THEN -1 ELSE 0

(***************************************************************************)
(* fc_fet1's result (core.py 148-160) and fc_features' rows of one region  *)
(* (core.py 84-99).                                                        *)
(***************************************************************************)
\* the three dictionaries fc_fet1 returns, from the aggregator's totals
fc_fet1_counts_dup_once(fm, cf) ==
    LET dom == Range(cf.samples) \cup DOMAIN fm.cell_cnt
        has(smp) == smp \in DOMAIN fm.cell_cnt
        dup(smp) == IF cf.no_dup_hap THEN 0 ELSE PyIdx(fm.cell_cnt[smp], 2)
    IN  [alt |-> [smp \in dom |-> IF has(smp)
                    THEN PyIdx(fm.cell_cnt[smp], 1) + dup(smp) ELSE 0],
         dp  |-> [smp \in dom |-> IF has(smp)
                    THEN PyIdx(fm.cell_cnt[smp], 0) + PyIdx(fm.cell_cnt[smp], 1)
                         + dup(smp) ELSE 0],
         oth |-> [smp \in dom |-> IF has(smp) THEN PyIdx(fm.cell_cnt[smp], -1) ELSE 0]]

fc_fet1_counts_dp_ref_only(fm, cf) ==
    LET dom == Range(cf.samples) \cup DOMAIN fm.cell_cnt
        has(smp) == smp \in DOMAIN fm.cell_cnt
        dup(smp) == IF cf.no_dup_hap THEN 0 ELSE PyIdx(fm.cell_cnt[smp], 2)
    IN  [alt |-> [smp \in dom |-> IF has(smp)
                    THEN PyIdx(fm.cell_cnt[smp], 1) + dup(smp) ELSE 0],
         dp  |-> [smp \in dom |-> IF has(smp)
                    THEN PyIdx(fm.cell_cnt[smp], 0) + dup(smp) * 2 ELSE 0],
         oth |-> [smp \in dom |-> IF has(smp) THEN PyIdx(fm.cell_cnt[smp], -1) ELSE 0]]

fc_fet1_counts(fm, cf) ==
    LET dom == Range(cf.samples) \cup DOMAIN fm.cell_cnt
        has(smp) == smp \in DOMAIN fm.cell_cnt
        dup(smp) == IF cf.no_dup_hap THEN 0 ELSE PyIdx(fm.cell_cnt[smp], 2)
    IN  [alt |-> [smp \in dom |-> IF has(smp)
                    THEN PyIdx(fm.cell_cnt[smp], 1) + dup(smp) ELSE 0],
         dp  |-> [smp \in dom |-> IF has(smp)
                    THEN PyIdx(fm.cell_cnt[smp], 0) + PyIdx(fm.cell_cnt[smp], 1)
                         + dup(smp) * 2 ELSE 0],
         oth |-> [smp \in dom |-> IF has(smp) THEN PyIdx(fm.cell_cnt[smp], -1) ELSE 0]]

RECURSIVE region_rows_all_samples(_, _, _, _)
region_rows_all_samples(reg_idx, cnt, samples, i) ==
    IF i >= Len(samples) THEN [ad |-> <<>>, dp |-> <<>>, oth |-> <<>>]
    ELSE
      LET smp == samples[i + 1]
          rest == region_rows_all_samples(reg_idx, cnt, samples, i + 1)
      IN  [ad  |-> << <<reg_idx + 1, i + 1, cnt.alt[smp]>> >> \o rest.ad,
           dp  |-> << <<reg_idx + 1, i + 1, cnt.dp[smp]>> >> \o rest.dp,
           oth |-> << <<reg_idx + 1, i + 1, cnt.oth[smp]>> >> \o rest.oth]

RECURSIVE region_rows_last_first(_, _, _, _)
region_rows_last_first(reg_idx, cnt, samples, i) ==
    IF i >= Len(samples) THEN [ad |-> <<>>, dp |-> <<>>, oth |-> <<>>]
    ELSE
      LET smp == samples[i + 1]
          nu_ad == cnt.alt[smp]
          nu_dp == cnt.dp[smp]
          nu_oth == cnt.oth[smp]
          rest == region_rows_last_first(reg_idx, cnt, samples, i + 1)
      IN  IF nu_dp + nu_oth <= 0 THEN rest
          ELSE [ad  |-> rest.ad
                         \o (IF nu_ad > 0 THEN << <<reg_idx + 1, i + 1, nu_ad>> >> ELSE <<>>),
                dp  |-> rest.dp
                         \o (IF nu_dp > 0 THEN << <<reg_idx + 1, i + 1, nu_dp>> >> ELSE <<>>),
                oth |-> rest.oth
                         \o (IF nu_oth > 0 THEN << <<reg_idx + 1, i + 1, nu_oth>> >> ELSE <<>>)]

RECURSIVE region_rows(_, _, _, _)
\* str_ad, str_dp and str_oth as the lines the loop over conf.samples appends,
\* from sample i on; a line is <<region index, sample index, count>>
region_rows(reg_idx, cnt, samples, i) ==
    IF i >= Len(samples) THEN [ad |-> <<>>, dp |-> <<>>, oth |-> <<>>]
    ELSE
      LET smp == samples[i + 1]
          nu_ad == cnt.alt[smp]
          nu_dp == cnt.dp[smp]
          nu_oth == cnt.oth[smp]
          rest == region_rows(reg_idx, cnt, samples, i + 1)
      IN  IF nu_dp + nu_oth <= 0 THEN rest
          ELSE [ad  |-> (IF nu_ad > 0 THEN << <<reg_idx + 1, i + 1, nu_ad>> >> ELSE <<>>)
                         \o rest.ad,
                dp  |-> (IF nu_dp > 0 THEN << <<reg_idx + 1, i + 1, nu_dp>> >> ELSE <<>>)
                         \o rest.dp,
                oth |-> (IF nu_oth > 0 THEN << <<reg_idx + 1, i + 1, nu_oth>> >> ELSE <<>>)
                         \o rest.oth]

(***************************************************************************)
(* Inputs.                                                                 *)
(***************************************************************************)
Chr1 == <<"c", "h", "r", "1">>
Bare1 == <<"1">>

\* alignment files: named with "chr", named without it, and one whose fetch
\* raises for every name (a missing index, an unknown contig)
SamChr == (Chr1 :> "itr")
SamBare == (Bare1 :> "itr")
SamBroken == << >>
SamListPool == {<<SamChr, SamBare>>, <<SamBroken, SamChr>>}

SnpA == [chrom |-> Chr1, pos |-> 150, ref |-> "A", alt |-> "G"]
SnpB == [chrom |-> Chr1, pos |-> 160, ref |-> "G", alt |-> "T"]
RegionPool ==
    {[name |-> "g0", chrom |-> Chr1, start |-> 0, end |-> 100, snp_list |-> <<>>],
     [name |-> "g1", chrom |-> Chr1, start |-> 100, end |-> 200, snp_list |-> <<SnpA>>],
     [name |-> "g2", chrom |-> Chr1, start |-> 100, end |-> 300,
      snp_list |-> <<SnpA, SnpB>>]}
\* region lists: up to MaxReg regions of the pool, no region twice
ListsOver(pool) ==
    {l \in UNION {[1..k -> pool] : k \in 0..MaxReg} :
        \A i, j \in 1..Len(l) : l[i] = l[j] => i = j}
RegionLists == ListsOver(RegionPool)

Samples == <<"S1", "S2">>

\* the run configurations of the worker: sample mode without UMIs, with the MAF
\* gate off and on; barcode mode with UMIs, with and without duplicate-haplotype
\* counting
ConfPool ==
    {[min_mapq |-> 1, excl_flag |-> 0, incl_flag |-> 0, no_orphan |-> TRUE,
      cell_tag |-> c[1], umi_tag |-> c[2], min_len |-> 1, min_count |-> 1,
      min_maf |-> [num |-> c[3], den |-> 2], no_dup_hap |-> c[4], samples |-> Samples] :
        c \in {<<None, None, 0, FALSE>>, <<None, None, 1, FALSE>>,
               <<"CB", "UB", 0, FALSE>>, <<"CB", "UB", 0, TRUE>>}}

\* the reads an iterator can yield at a SNP: well-mapped reads of either cell with
\* each base or none at the SNP, untagged ones, a read below the mapping quality,
\* and a read on which the tally reports corruption
TagSets == {<< >>} \cup {("CB" :> cb) @@ ("UB" :> "u1") : cb \in Range(Samples)}
ReadPool ==
    [mapq : {1}, flag : {0}, tags : TagSets, positions : {<<149>>},
     base : {"A", "G", "T", None}, fatal : {FALSE}]
    \cup {[mapq |-> 0, flag |-> 0, tags |-> << >>, positions |-> <<149>>,
           base |-> "A", fatal |-> FALSE],
          [mapq |-> 1, flag |-> 0, tags |-> ("CB" :> "S1") @@ ("UB" :> "u1"),
           positions |-> <<149>>, base |-> "A", fatal |-> TRUE]}

\* config.use_barcodes(): barcode mode is the mode with a cell tag
use_barcodes(cf) == cf.cell_tag # None

(***************************************************************************)
(* The dispatcher's partition (design section 4.5): the positions of the   *)
(* full region list that chunk k of n gets, in list order.                 *)
(***************************************************************************)
owner(i, len, n, strategy) ==
    IF strategy = "round_robin" THEN ((i - 1) % n) + 1
    ELSE (((i - 1) * n) \div len) + 1

RECURSIVE chunk_ids(_, _, _, _, _)
chunk_ids(i, len, n, strategy, k) ==
    IF i > len THEN <<>>
    ELSE (IF owner(i, len, n, strategy) = k THEN <<i>> ELSE <<>>)
         \o chunk_ids(i + 1, len, n, strategy, k)

VARIABLES
    q_read, q_conf, q_ret,      \* check_read's harness: read, configuration, results
    qc_in, qc_ret,              \* the QC gate's harness: tally and configuration, results
    f_in, f_ret,                \* sam_fetch's harness: file, name and interval, results
    conf,                       \* the run configuration (immutable)
    sam_fns,                    \* conf.sam_fn_list: the alignment files (immutable)
    reg_all,                    \* the full region list (immutable)
    th,                         \* th[w]: worker w's thdata, locals, files and position
    nreads                      \* reads the alignment files have yielded in this run

vars == <<q_read, q_conf, q_ret, qc_in, qc_ret, f_in, f_ret, conf, sam_fns, reg_all, th,
         nreads>>

Workers == DOMAIN th

NoCounts == [alt |-> << >>, dp |-> << >>, oth |-> << >>]
NoFeature == [region |-> None, cell_cnt |-> << >>]

\* thdata as the dispatcher hands it to fc_features, and the worker's locals
thdata0(idx, reg_obj, gids) ==
    [idx |-> idx, reg_obj |-> reg_obj, pc |-> "start", outcome |-> "running",
     ret |-> -1, nr_reg |-> 0, nr_ad |-> 0, nr_dp |-> 0, nr_oth |-> 0,
     sam_list |-> <<>>, reg_list |-> <<>>, files |-> "unopened",
     fp_reg |-> <<>>, fp_ad |-> <<>>, fp_dp |-> <<>>, fp_oth |-> <<>>,
     snp_mcnt |-> snp_reset, mcnt |-> NoFeature,
     reg_idx |-> 0, snp_i |-> 0, sam_i |-> 0, plp_ret |-> 0,
     fet |-> [ret |-> 0, cnt |-> NoCounts],
     \* history, read by the properties only
     gids |-> gids, accepted |-> <<>>, fetch_none |-> FALSE, aborted |-> 0,
     log |-> <<>>]

(***************************************************************************)
(* The worker, fc_features (core.py 40-130), one action per step of its    *)
(* control flow; plp_snp (163-211) and fc_fet1 (133-160) are inlined at    *)
(* their call sites.                                                       *)
(***************************************************************************)
Set(w, t) ==
    /\ th' = [th EXCEPT ![w] = t]
    /\ UNCHANGED <<q_read, q_conf, q_ret, qc_in, qc_ret, f_in, f_ret, conf, sam_fns,
                   reg_all>>

cur_reg(t) == t.reg_list[t.reg_idx + 1]
cur_snp(t) == cur_reg(t).snp_list[t.snp_i + 1]

\* core.py 41-65: ret = -1, the alignment files, the region list, the four
\* output files and the two counting machines
Start(w) ==
    LET t == th[w] IN
    /\ w \in Workers
    /\ t.pc = "start"
    /\ Set(w, [t EXCEPT !.ret = -1, !.sam_list = sam_fns, !.reg_list = t.reg_obj,
                        !.files = "open", !.fp_reg = <<>>, !.fp_ad = <<>>,
                        !.fp_dp = <<>>, !.fp_oth = <<>>,
                        !.snp_mcnt = snp_reset, !.mcnt = NoFeature,
                        !.reg_idx = 0, !.pc = "loop"])
    /\ UNCHANGED nreads

\* the region line of core.py 74-75
region_line_end(reg) == <<reg.chrom, reg.start, reg.end, reg.name>>

region_line(reg) == <<reg.chrom, reg.start, reg.end - 1, reg.name>>

\* core.py 67-78 (and 106-111 for a region without SNPs): add_region, the
\* region line, then the SNPs if there are any
RegionBegin_totals_kept(w) ==
    LET t == th[w] IN
    /\ w \in Workers
    /\ t.pc = "loop"
    /\ t.reg_idx < Len(t.reg_list)
    /\ LET reg == cur_reg(t)
           t1 == [t EXCEPT !.mcnt = IF t.reg_idx = 0
                                    THEN fet_add_region(t.mcnt, reg, conf)
                                    ELSE [t.mcnt EXCEPT !.region = reg.name],
                           !.fp_reg = Append(t.fp_reg, region_line(reg)),
                           !.accepted = <<>>]
       IN  IF reg.snp_list # <<>>
           THEN Set(w, [t1 EXCEPT !.snp_i = 0, !.pc = "fet1"])
           ELSE Set(w, [t1 EXCEPT !.reg_idx = t.reg_idx + 1])
    /\ UNCHANGED nreads

RegionBegin(w) ==
    LET t == th[w] IN
    /\ w \in Workers
    /\ t.pc = "loop"
    /\ t.reg_idx < Len(t.reg_list)
    /\ LET reg == cur_reg(t)
           t1 == [t EXCEPT !.mcnt = fet_add_region(t.mcnt, reg, conf),
                           !.fp_reg = Append(t.fp_reg, region_line(reg)),
                           !.accepted = <<>>]
       IN  IF reg.snp_list # <<>>
           THEN Set(w, [t1 EXCEPT !.snp_i = 0, !.pc = "fet1"])
           ELSE Set(w, [t1 EXCEPT !.reg_idx = t.reg_idx + 1])
    /\ UNCHANGED nreads

\* core.py 134-135, 182-184: the next SNP of the region; add_snp
PlpBegin(w) ==
    LET t == th[w] IN
    /\ w \in Workers
    /\ t.pc = "fet1"
    /\ t.snp_i < Len(cur_reg(t).snp_list)
    /\ LET r == snp_add_snp(t.snp_mcnt, cur_snp(t))
       IN  IF r.ret < 0
           THEN Set(w, [t EXCEPT !.plp_ret = -3, !.pc = "plp_ret"])
           ELSE Set(w, [t EXCEPT !.snp_mcnt = r.m, !.sam_i = 0, !.fetch_none = FALSE,
                                 !.pc = "sam"])
    /\ UNCHANGED nreads

\* what plp_snp does with a source whose fetch gave None (core.py 187-188)
on_fetch_none_fatal(t) == [t EXCEPT !.fetch_none = TRUE, !.plp_ret = -3, !.pc = "plp_ret"]

on_fetch_none(t) == [t EXCEPT !.fetch_none = TRUE, !.sam_i = t.sam_i + 1]

\* core.py 185-188: the next alignment file; sam_fetch at the SNP's position
SamFetch(w) ==
    LET t == th[w] IN
    /\ w \in Workers
    /\ t.pc = "sam"
    /\ t.sam_i < Len(t.sam_list)
    /\ LET snp == cur_snp(t)
           f == sam_fetch(t.sam_list[t.sam_i + 1], snp.chrom, snp.pos, snp.pos)
       IN  IF f.itr = None
           THEN Set(w, on_fetch_none(t))
           ELSE Set(w, [t EXCEPT !.pc = "read"])
    /\ UNCHANGED nreads

\* the worker after one read of the iterator (core.py 190-200)
on_read_unchecked(t, read) ==
    LET unit == IF use_barcodes(conf) THEN read.tags[conf.cell_tag]
                ELSE conf.samples[t.sam_i + 1]
        r == snp_push_read(t.snp_mcnt, read, unit, conf)
    IN  IF r.ret < 0
        THEN IF r.ret = -1 THEN [t EXCEPT !.plp_ret = -5, !.pc = "plp_ret"] ELSE t
        ELSE [t EXCEPT !.snp_mcnt = r.m]

on_read_fatal_dropped(t, read) ==
    IF check_read(read, conf) < 0 THEN t
    ELSE
      LET unit == IF use_barcodes(conf) THEN read.tags[conf.cell_tag]
                  ELSE conf.samples[t.sam_i + 1]
          r == snp_push_read(t.snp_mcnt, read, unit, conf)
      IN  IF r.ret < 0 THEN t ELSE [t EXCEPT !.snp_mcnt = r.m]

on_read(t, read) ==
    IF check_read(read, conf) < 0 THEN t
    ELSE
      LET unit == IF use_barcodes(conf) THEN read.tags[conf.cell_tag]
                  ELSE conf.samples[t.sam_i + 1]
          r == snp_push_read(t.snp_mcnt, read, unit, conf)
      IN  IF r.ret < 0
          THEN IF r.ret = -1 THEN [t EXCEPT !.plp_ret = -5, !.pc = "plp_ret"] ELSE t
          ELSE [t EXCEPT !.snp_mcnt = r.m]

\* core.py 189-200: the iterator yields a read
ReadNext(w) ==
    LET t == th[w] IN
    /\ w \in Workers
    /\ t.pc = "read"
    /\ nreads < MaxReads
    /\ \E read \in ReadPool : Set(w, on_read(t, read))
    /\ nreads' = nreads + 1

\* core.py 189: the iterator is exhausted
ReadEnd(w) ==
    LET t == th[w] IN
    /\ w \in Workers
    /\ t.pc = "read"
    /\ Set(w, [t EXCEPT !.sam_i = t.sam_i + 1, !.pc = "sam"])
    /\ UNCHANGED nreads

\* core.py 201-211: stat() and the QC gate
PlpStat(w) ==
    LET t == th[w] IN
    /\ w \in Workers
    /\ t.pc = "sam"
    /\ t.sam_i >= Len(t.sam_list)
    /\ LET r == snp_stat(t.snp_mcnt)
       IN  IF r.ret < 0
           THEN Set(w, [t EXCEPT !.plp_ret = -7, !.pc = "plp_ret"])
           ELSE Set(w, [t EXCEPT !.snp_mcnt = r.m,
                                 !.plp_ret = snp_qc(r.m.tcount, cur_snp(t), conf),
                                 !.pc = "plp_ret"])
    /\ UNCHANGED nreads

\* fc_fet1 after plp_snp returned (core.py 136-144)
on_plp_ret_push_filtered(t) ==
    IF t.plp_ret < 0
    THEN [t EXCEPT !.fet = [ret |-> -3, cnt |-> NoCounts], !.pc = "fet1_ret"]
    ELSE
      LET r == fet_push_snp(t.mcnt, t.snp_mcnt)
      IN  IF r.ret < 0
          THEN [t EXCEPT !.fet = [ret |-> -5, cnt |-> NoCounts], !.pc = "fet1_ret"]
          ELSE [t EXCEPT !.mcnt = r.fm,
                         !.accepted = IF t.plp_ret = 0
                                      THEN Append(t.accepted, t.snp_mcnt.cell_cnt)
                                      ELSE t.accepted,
                         !.snp_i = t.snp_i + 1, !.pc = "fet1"]

on_plp_ret(t) ==
    IF t.plp_ret < 0
    THEN [t EXCEPT !.fet = [ret |-> -3, cnt |-> NoCounts], !.pc = "fet1_ret"]
    ELSE IF t.plp_ret > 0
    THEN [t EXCEPT !.snp_i = t.snp_i + 1, !.pc = "fet1"]
    ELSE
      LET r == fet_push_snp(t.mcnt, t.snp_mcnt)
      IN  IF r.ret < 0
          THEN [t EXCEPT !.fet = [ret |-> -5, cnt |-> NoCounts], !.pc = "fet1_ret"]
          ELSE [t EXCEPT !.mcnt = r.fm,
                         !.accepted = Append(t.accepted, t.snp_mcnt.cell_cnt),
                         !.snp_i = t.snp_i + 1, !.pc = "fet1"]

\* core.py 136-144: plp_snp's code decides between abort, skip and push_snp
Fet1Snp(w) ==
    LET t == th[w] IN
    /\ w \in Workers
    /\ t.pc = "plp_ret"
    /\ Set(w, on_plp_ret(t))
    /\ UNCHANGED nreads

\* core.py 145-160: after the last SNP, stat() and the three dictionaries
Fet1End(w) ==
    LET t == th[w] IN
    /\ w \in Workers
    /\ t.pc = "fet1"
    /\ t.snp_i >= Len(cur_reg(t).snp_list)
    /\ IF fet_stat(t.mcnt) < 0
       THEN Set(w, [t EXCEPT !.fet = [ret |-> -7, cnt |-> NoCounts], !.pc = "fet1_ret"])
       ELSE Set(w, [t EXCEPT !.fet = [ret |-> 0, cnt |-> fc_fet1_counts(t.mcnt, conf)],
                             !.pc = "fet1_ret"])
    /\ UNCHANGED nreads

\* core.py 81-82: raise RuntimeError; nothing after it runs, nothing is returned
on_fet1_error_skip_region(t) ==
    [t EXCEPT !.aborted = t.reg_idx + 1, !.reg_idx = t.reg_idx + 1, !.pc = "loop"]

on_fet1_error_flush(t) ==
    LET rows == region_rows(t.reg_idx, fc_fet1_counts(t.mcnt, conf), conf.samples, 0)
    IN  [t EXCEPT !.fp_ad = t.fp_ad \o rows.ad, !.fp_dp = t.fp_dp \o rows.dp,
                  !.fp_oth = t.fp_oth \o rows.oth,
                  !.aborted = t.reg_idx + 1, !.outcome = "raised", !.pc = "raised"]

on_fet1_error(t) ==
    [t EXCEPT !.aborted = t.reg_idx + 1, !.outcome = "raised", !.pc = "raised"]

Raise(w) ==
    LET t == th[w] IN
    /\ w \in Workers
    /\ t.pc = "fet1_ret"
    /\ t.fet.ret < 0
    /\ Set(w, on_fet1_error(t))
    /\ UNCHANGED nreads

\* core.py 84-111: the region's rows, the counters, the three writes
emit_zero_based(t) ==
    LET rows == region_rows(t.reg_idx - 1, t.fet.cnt, conf.samples, 0)
        written == rows.dp # <<>> \/ rows.oth # <<>>
    IN  [t EXCEPT !.nr_ad = t.nr_ad + Len(rows.ad),
                  !.nr_dp = t.nr_dp + Len(rows.dp),
                  !.nr_oth = t.nr_oth + Len(rows.oth),
                  !.fp_ad = IF written THEN t.fp_ad \o rows.ad ELSE t.fp_ad,
                  !.fp_dp = IF written THEN t.fp_dp \o rows.dp ELSE t.fp_dp,
                  !.fp_oth = IF written THEN t.fp_oth \o rows.oth ELSE t.fp_oth,
                  !.reg_idx = t.reg_idx + 1, !.pc = "loop"]

emit(t) ==
    LET rows == region_rows(t.reg_idx, t.fet.cnt, conf.samples, 0)
        written == rows.dp # <<>> \/ rows.oth # <<>>
    IN  [t EXCEPT !.nr_ad = t.nr_ad + Len(rows.ad),
                  !.nr_dp = t.nr_dp + Len(rows.dp),
                  !.nr_oth = t.nr_oth + Len(rows.oth),
                  !.fp_ad = IF written THEN t.fp_ad \o rows.ad ELSE t.fp_ad,
                  !.fp_dp = IF written THEN t.fp_dp \o rows.dp ELSE t.fp_dp,
                  !.fp_oth = IF written THEN t.fp_oth \o rows.oth ELSE t.fp_oth,
                  !.reg_idx = t.reg_idx + 1, !.pc = "loop"]

Emit(w) ==
    LET t == th[w] IN
    /\ w \in Workers
    /\ t.pc = "fet1_ret"
    /\ t.fet.ret >= 0
    /\ Set(w, emit(t))
    /\ UNCHANGED nreads

\* core.py 113-130: nr_reg, the files and the alignment files closed, ret = 0,
\* (0, thdata) returned
Finish_streams_left_open(w) ==
    LET t == th[w] IN
    /\ w \in Workers
    /\ t.pc = "loop"
    /\ t.reg_idx >= Len(t.reg_list)
    /\ Set(w, [t EXCEPT !.nr_reg = Len(t.reg_list), !.ret = 0, !.outcome = "returned",
                        !.pc = "done"])
    /\ UNCHANGED nreads

Finish_nr_reg_last_index(w) ==
    LET t == th[w] IN
    /\ w \in Workers
    /\ t.pc = "loop"
    /\ t.reg_idx >= Len(t.reg_list)
    /\ Set(w, [t EXCEPT !.nr_reg = IF t.reg_list = <<>> THEN 0 ELSE Len(t.reg_list) - 1,
                        !.files = "closed", !.sam_list = <<>>, !.ret = 0,
                        !.outcome = "returned", !.pc = "done"])
    /\ UNCHANGED nreads

Finish(w) ==
    LET t == th[w] IN
    /\ w \in Workers
    /\ t.pc = "loop"
    /\ t.reg_idx >= Len(t.reg_list)
    /\ Set(w, [t EXCEPT !.nr_reg = Len(t.reg_list), !.files = "closed",
                        !.sam_list = <<>>, !.ret = 0, !.outcome = "returned",
                        !.pc = "done"])
    /\ UNCHANGED nreads

(***************************************************************************)
(* One worker on the whole region list.                                    *)
(***************************************************************************)
IdleRead == [mapq |-> 0, flag |-> 0, tags |-> << >>, positions |-> <<>>]
IdleConf == [min_mapq |-> 0, excl_flag |-> 0, incl_flag |-> 0, no_orphan |-> FALSE,
             cell_tag |-> None, umi_tag |-> None, min_len |-> 0]
IdleQc == [tcount |-> Zero5, snp |-> SnpA, min_count |-> 0,
           min_maf |-> [num |-> 0, den |-> 1]]

IdleFetch == [sam |-> << >>, chrom |-> <<>>, start |-> 1, end |-> 1]
FetchIdle == f_in = IdleFetch /\ f_ret = <<>>

HarnessIdle ==
    /\ q_read = IdleRead /\ q_conf = IdleConf /\ q_ret = <<>>
    /\ qc_in = IdleQc /\ qc_ret = <<>>
    /\ FetchIdle

Ids(n) == [i \in 1..n |-> i]

Init ==
    /\ HarnessIdle
    /\ conf \in ConfPool
    /\ sam_fns \in SamListPool
    /\ reg_all \in RegionLists
    /\ th = <<thdata0(1, reg_all, Ids(Len(reg_all)))>>
    /\ nreads = 0

Next ==
    \E w \in 1..MaxWorkers :
        \/ Start(w) \/ RegionBegin(w) \/ PlpBegin(w) \/ SamFetch(w) \/ ReadNext(w)
        \/ ReadEnd(w) \/ PlpStat(w) \/ Fet1Snp(w) \/ Fet1End(w) \/ Raise(w) \/ Emit(w)
        \/ Finish(w)

Spec == Init /\ [][Next]_vars

\* the worker is a sequential program over finite iterators: it takes its next
\* step as long as it has one; run here in sample mode and in barcode mode, with
\* the MAF gate off and duplicate-haplotype counting on
InitLive == Init /\ conf.min_maf.num = 0 /\ ~conf.no_dup_hap

SpecLive == InitLive /\ [][Next]_vars /\ WF_vars(Next)

(***************************************************************************)
(* check_read on every read and configuration of a bounded domain.         *)
(***************************************************************************)
AllFlags == 0..(Pow2(FlagBits) - 1)
\* flag masks: unset, each single bit, all bits
Masks == {0, Pow2(FlagBits) - 1} \cup {Pow2(i) : i \in 0..(FlagBits - 1)}
QReads ==
    [mapq : 0..MaxMapq, flag : AllFlags,
     tags : {<< >>, ("CB" :> "S1"), ("UB" :> "u1"), ("CB" :> "S1") @@ ("UB" :> "u1")},
     positions : {Ids(n) : n \in 0..MaxLen}]
QConfs ==
    [min_mapq : 0..MaxMapq, excl_flag : Masks, incl_flag : Masks, no_orphan : BOOLEAN,
     cell_tag : {None, "CB"}, umi_tag : {None, "UB"}, min_len : 0..MaxLen]

WorkerIdle ==
    /\ conf = CHOOSE c \in ConfPool : TRUE
    /\ sam_fns = <<>> /\ reg_all = <<>> /\ th = <<>> /\ nreads = 0

InitRead ==
    /\ q_read \in QReads /\ q_conf \in QConfs /\ q_ret = <<>>
    /\ qc_in = IdleQc /\ qc_ret = <<>>
    /\ FetchIdle
    /\ WorkerIdle

\* one call of check_read; its result is all it leaves behind
CheckRead ==
    /\ Len(q_ret) < 2
    /\ q_ret' = Append(q_ret, check_read(q_read, q_conf))
    /\ UNCHANGED <<q_read, q_conf, qc_in, qc_ret, f_in, f_ret, conf, sam_fns, reg_all, th,
                   nreads>>

NextRead == CheckRead

SpecRead == InitRead /\ [][NextRead]_vars

(***************************************************************************)
(* check_read on one read under two configurations that differ in one of   *)
(* the four thresholds: min_mapq, excl_flag, incl_flag, min_len.           *)
(***************************************************************************)
MonoReads == {r \in QReads : r.tags \in {<< >>, ("CB" :> "S1") @@ ("UB" :> "u1")}}
MonoConfs == {c \in QConfs : (c.cell_tag = None) = (c.umi_tag = None)}
Thresholds == {"min_mapq", "excl_flag", "incl_flag", "min_len"}
\* the configurations that differ from cf in threshold f alone
Varied(cf, f) ==
    CASE f = "min_mapq" -> {[cf EXCEPT !.min_mapq = v] : v \in (0..MaxMapq) \ {cf.min_mapq}}
      [] f = "excl_flag" -> {[cf EXCEPT !.excl_flag = v] : v \in Masks \ {cf.excl_flag}}
      [] f = "incl_flag" -> {[cf EXCEPT !.incl_flag = v] : v \in Masks \ {cf.incl_flag}}
      [] f = "min_len" -> {[cf EXCEPT !.min_len = v] : v \in (0..MaxLen) \ {cf.min_len}}

InitMono ==
    /\ q_read \in MonoReads /\ q_conf \in MonoConfs /\ q_ret = <<>>
    /\ qc_in = IdleQc /\ qc_ret = <<>>
    /\ FetchIdle
    /\ WorkerIdle

\* check_read on the read under q_conf and under a configuration that differs
\* from it in one threshold
CheckReadTwice ==
    /\ q_ret = <<>>
    /\ \E f \in Thresholds : \E cf2 \in Varied(q_conf, f) :
          q_ret' = <<[field |-> f, conf2 |-> cf2, first |-> check_read(q_read, q_conf),
                      second |-> check_read(q_read, cf2)]>>
    /\ UNCHANGED <<q_read, q_conf, qc_in, qc_ret, f_in, f_ret, conf, sam_fns, reg_all, th,
                   nreads>>

NextMono == CheckReadTwice

SpecMono == InitMono /\ [][NextMono]_vars

(***************************************************************************)
(* The two definitions of check_read, of core.py and of utils/sam.py, on   *)
(* the same read and configuration.                                        *)
(***************************************************************************)
InitBoth ==
    /\ q_read \in QReads /\ q_conf \in QConfs /\ q_ret = <<>>
    /\ qc_in = IdleQc /\ qc_ret = <<>>
    /\ FetchIdle
    /\ WorkerIdle

CheckReadBoth ==
    /\ q_ret = <<>>
    /\ q_ret' = <<[core |-> check_read(q_read, q_conf),
                   sam |-> sam_check_read(q_read, q_conf)]>>
    /\ UNCHANGED <<q_read, q_conf, qc_in, qc_ret, f_in, f_ret, conf, sam_fns, reg_all, th,
                   nreads>>

NextBoth == CheckReadBoth

SpecBoth == InitBoth /\ [][NextBoth]_vars

(***************************************************************************)
(* The QC gate on every finalized tally and configuration of a bounded     *)
(* domain: the SNP A>G or G>T, counts of A and G up to MaxCount, at most   *)
(* one T.                                                                  *)
(***************************************************************************)
QcInputs ==
    [tcount : {<<a, 0, g, t, 0>> : a \in 0..MaxCount, g \in 0..MaxCount, t \in 0..1},
     snp : {SnpA, SnpB},
     min_count : {0, 5, 10},
     min_maf : {[num |-> 0, den |-> 1], [num |-> 1, den |-> 5], [num |-> 1, den |-> 2]}]

InitQc ==
    /\ q_read = IdleRead /\ q_conf = IdleConf /\ q_ret = <<>>
    /\ qc_in \in QcInputs /\ qc_ret = <<>>
    /\ FetchIdle
    /\ WorkerIdle

\* one run of the gate on the finalized tally (core.py 203-211)
QcGate ==
    /\ Len(qc_ret) < 2
    /\ qc_ret' = Append(qc_ret, snp_qc(qc_in.tcount, qc_in.snp, qc_in))
    /\ UNCHANGED <<q_read, q_conf, q_ret, qc_in, f_in, f_ret, conf, sam_fns, reg_all, th,
                   nreads>>

NextQc == QcGate

SpecQc == InitQc /\ [][NextQc]_vars

(***************************************************************************)
(* sam_fetch on every alignment file, chromosome name and interval of a    *)
(* bounded domain: names with and without "chr", the bare prefix and the   *)
(* empty name; a file answers each name with an iterator, with a result    *)
(* Python counts as false, or by raising.                                  *)
(***************************************************************************)
FetchNames == {Chr1, Bare1, Chr, <<>>}
FetchFiles == UNION {[names -> {"itr", "falsy"}] : names \in SUBSET FetchNames}
FetchInputs == [sam : FetchFiles, chrom : FetchNames, start : {1, 150}, end : {150, 151}]

InitFetch ==
    /\ q_read = IdleRead /\ q_conf = IdleConf /\ q_ret = <<>>
    /\ qc_in = IdleQc /\ qc_ret = <<>>
    /\ f_in \in FetchInputs /\ f_ret = <<>>
    /\ WorkerIdle

\* one call of sam_fetch (sam.py 111-148)
Fetch ==
    /\ f_ret = <<>>
    /\ f_ret' = <<sam_fetch(f_in.sam, f_in.chrom, f_in.start, f_in.end)>>
    /\ UNCHANGED <<q_read, q_conf, q_ret, qc_in, qc_ret, f_in, conf, sam_fns, reg_all, th,
                   nreads>>

NextFetch == Fetch

SpecFetch == InitFetch /\ [][NextFetch]_vars

(***************************************************************************)
(* The dispatcher's workers side by side: the full region list split into  *)
(* n chunks, contiguous or round-robin, one fc_features per chunk, each    *)
(* with its own thdata, alignment handles and shard files.                 *)
(***************************************************************************)
chunk_of(regs, ids) == [j \in 1..Len(ids) |-> regs[ids[j]]]

PartConf == CHOOSE c \in ConfPool : c.cell_tag = None /\ c.min_maf.num = 0

\* the dispatcher's region lists: regions of at most one SNP, no region twice
PartPool ==
    {r \in RegionPool : Len(r.snp_list) <= 1}
    \cup {[name |-> "g3", chrom |-> Chr1, start |-> 155, end |-> 165,
           snp_list |-> <<SnpB>>]}
PartLists == ListsOver(PartPool)

InitPart ==
    /\ HarnessIdle
    /\ conf = PartConf
    /\ sam_fns = <<SamBare>>
    /\ reg_all \in PartLists
    /\ \E n \in 1..MaxWorkers, strategy \in {"contiguous", "round_robin"} :
          th = [w \in 1..n |->
                  LET ids == chunk_ids(1, Len(reg_all), n, strategy, w)
                  IN  thdata0(w, chunk_of(reg_all, ids), ids)]
    /\ nreads = 0

SpecPart == InitPart /\ [][Next]_vars

(***************************************************************************)
(* Two runs of fc_features one after the other, on the same configuration  *)
(* and alignment files: run 1 on the full region list, run 2 on the same   *)
(* list or on one of its regions alone.  Run 1 logs every read its         *)
(* iterators yield with the place it was yielded at (region, SNP,          *)
(* alignment file); in run 2 the iterators yield, at each place, the reads *)
(* run 1 got there, in the same order.                                     *)
(***************************************************************************)
\* the reads of the two runs: reads of both cells with the reference and the
\* alternative base of the first SNP, a read on which the tally reports corruption
TwinReads ==
    {r \in ReadPool :
        \/ r.fatal
        \/ r.tags # << >> /\ r.tags["CB"] = "S1" /\ r.base \in {"A", "G"}
        \/ r.tags # << >> /\ r.tags["CB"] = "S2" /\ r.base = "G"}

\* the configurations of the two runs: sample mode with the MAF gate on, barcode
\* mode with UMIs and duplicate-haplotype counting
TwinConfs ==
    {c \in ConfPool : (c.cell_tag = None /\ c.min_maf.num = 1)
                      \/ (c.cell_tag # None /\ ~c.no_dup_hap)}

\* the region lists of the second run
TwinLists(regs) == {regs} \cup {<<regs[k]>> : k \in 1..Len(regs)}

\* the region lists of the first run: regions with SNPs, behind a region without
\* SNPs or not
TwinRegionLists ==
    LET with_snps == ListsOver({r \in RegionPool : r.snp_list # <<>>})
        without == {r \in RegionPool : r.snp_list = <<>>}
    IN  with_snps \cup {<<r>> \o l : r \in without,
                                    l \in {l \in with_snps : l # <<>> /\ Len(l) < MaxReg}}

\* the positions in regs of the regions of list
PosIn(regs, list) ==
    [j \in 1..Len(list) |-> CHOOSE i \in 1..Len(regs) : regs[i] = list[j]]

place(t) == <<cur_reg(t).name, t.snp_i, t.sam_i>>

\* the reads of a log yielded at place p, in order
reads_at(log, p) ==
    LET AtP(e) == e.place = p IN SelectSeq(log, AtP)

\* what the iterator of the second run has still to yield at its place
pending(t) ==
    LET there == reads_at(th[1].log, place(t))
    IN  SubSeq(there, Len(reads_at(t.log, place(t))) + 1, Len(there))

logged(t, t1, read) == [t1 EXCEPT !.log = Append(t.log, [place |-> place(t), read |-> read])]

InitTwin ==
    /\ HarnessIdle
    /\ conf \in TwinConfs
    /\ sam_fns = <<SamChr, SamBare>>
    /\ reg_all \in TwinRegionLists
    /\ \E list \in TwinLists(reg_all) :
          th = <<thdata0(1, reg_all, Ids(Len(reg_all))),
                 [thdata0(2, list, PosIn(reg_all, list)) EXCEPT !.pc = "wait"]>>
    /\ nreads = 0

\* the second run starts when the first is over
Rerun(w) ==
    /\ w \in Workers /\ w = 2
    /\ th[w].pc = "wait"
    /\ th[1].pc \in {"done", "raised"}
    /\ Set(w, [th[w] EXCEPT !.pc = "start"])
    /\ UNCHANGED nreads

\* core.py 189-200 in the first run: the iterator yields any read
TwinRead(w) ==
    LET t == th[w] IN
    /\ w \in Workers /\ w = 1
    /\ t.pc = "read"
    /\ nreads < MaxReads
    /\ \E read \in TwinReads : Set(w, logged(t, on_read(t, read), read))
    /\ nreads' = nreads + 1

\* core.py 189-200 in the second run: the iterator yields the first run's next
\* read at this place
Replay(w) ==
    LET t == th[w] IN
    /\ w \in Workers /\ w = 2
    /\ t.pc = "read"
    /\ pending(t) # <<>>
    /\ LET read == Head(pending(t)).read
       IN  Set(w, logged(t, on_read(t, read), read))
    /\ UNCHANGED nreads

\* core.py 189: the iterator is exhausted
TwinReadEnd(w) ==
    /\ w \in Workers
    /\ w = 2 => (th[w].pc = "read" /\ pending(th[w]) = <<>>)
    /\ ReadEnd(w)

NextTwin ==
    \E w \in 1..MaxWorkers :
        \/ Rerun(w) \/ Start(w) \/ RegionBegin(w) \/ PlpBegin(w) \/ SamFetch(w)
        \/ TwinRead(w) \/ Replay(w) \/ TwinReadEnd(w) \/ PlpStat(w) \/ Fet1Snp(w)
        \/ Fet1End(w) \/ Raise(w) \/ Emit(w) \/ Finish(w)

SpecTwin == InitTwin /\ [][NextTwin]_vars

(***************************************************************************)
(* Properties.                                                             *)
(***************************************************************************)
\* bit i of x
HasBit(x, i) == (x \div Pow2(i)) % 2 = 1
\* x and mask have a set bit in common
SharesBit(x, mask) == \E i \in 0..FlagBits : HasBit(x, i) /\ HasBit(mask, i)

Qualifies(read, cf) ==
    /\ read.mapq >= cf.min_mapq
    /\ cf.excl_flag = 0 \/ ~SharesBit(read.flag, cf.excl_flag)
    /\ cf.incl_flag = 0 \/ SharesBit(read.flag, cf.incl_flag)
    /\ ~cf.no_orphan \/ ~HasBit(read.flag, 0) \/ HasBit(read.flag, 1)
    /\ cf.cell_tag = None \/ cf.cell_tag \in DOMAIN read.tags
    /\ cf.umi_tag = None \/ cf.umi_tag \in DOMAIN read.tags
    /\ Len(read.positions) >= cf.min_len

\* C1: check_read returns 0 exactly when the read passes all seven conditions
\* (mapping quality, exclusion mask, inclusion mask, orphan rule, cell tag, UMI
\* tag, aligned length), a negative code in every other case, and a call leaves
\* the read and the configuration as they were.
C1_CheckReadQualifies ==
    /\ [](\A i \in 1..Len(q_ret) :
            /\ q_ret[i] = 0 <=> Qualifies(q_read, q_conf)
            /\ q_ret[i] # 0 => q_ret[i] < 0)
    /\ [][q_read' = q_read /\ q_conf' = q_conf]_vars

\* a proper pair accepted with the orphan rule on, an inclusion mask and both
\* tags set
C1_Witness ==
    /\ q_ret # <<>> /\ q_ret[1] = 0
    /\ q_conf.no_orphan /\ HasBit(q_read.flag, 0) /\ HasBit(q_read.flag, 1)
    /\ q_conf.incl_flag # 0
    /\ q_conf.cell_tag # None /\ q_conf.umi_tag # None
    /\ q_conf.min_mapq > 0 /\ q_conf.min_len > 0

\* the count of one base letter in a finalized tcount
LetterCount(tcount, base) ==
    CASE base = "A" -> tcount[1] [] base = "C" -> tcount[2] [] base = "G" -> tcount[3]
      [] base = "T" -> tcount[4] [] OTHER -> tcount[5]
QcTotal == qc_in.tcount[1] + qc_in.tcount[2] + qc_in.tcount[3] + qc_in.tcount[4]
           + qc_in.tcount[5]
QcRef == LetterCount(qc_in.tcount, qc_in.snp.ref)
QcAlt == LetterCount(qc_in.tcount, qc_in.snp.alt)
QcMinor == IF QcRef <= QcAlt THEN QcRef ELSE QcAlt
\* minor < total * min_maf, in exact arithmetic
QcBelowMaf == QcMinor * qc_in.min_maf.den < QcTotal * qc_in.min_maf.num

\* C2: the QC gate filters (positive code) a SNP whose total count is below
\* min_count, else one whose minor count is below total * min_maf, and accepts
\* (0) every other; it never reports an error; a second run on the same tally
\* gives the same code; with min_count 10 and min_maf 0.2, 6 ref / 4 alt is
\* accepted and 9 ref / 1 alt is filtered.
C2_QcGate ==
    \A i \in 1..Len(qc_ret) :
        /\ qc_ret[i] >= 0
        /\ qc_ret[i] > 0 <=> (QcTotal < qc_in.min_count \/ QcBelowMaf)
        /\ QcTotal < qc_in.min_count => qc_ret[i] = 3
        /\ (QcTotal >= qc_in.min_count /\ QcBelowMaf) => qc_ret[i] = 5
        /\ qc_ret[i] = qc_ret[1]
        /\ (qc_in.min_count = 10 /\ qc_in.min_maf = [num |-> 1, den |-> 5]
            /\ QcTotal = 10 /\ QcRef = 6 /\ QcAlt = 4) => qc_ret[i] = 0
        /\ (qc_in.min_count = 10 /\ qc_in.min_maf = [num |-> 1, den |-> 5]
            /\ QcTotal = 10 /\ QcRef = 9 /\ QcAlt = 1) => qc_ret[i] = 5

\* the gate run twice on 6 ref / 4 alt with min_count 10 and min_maf 0.2
C2_Witness ==
    /\ Len(qc_ret) = 2 /\ qc_ret[2] = 0
    /\ qc_in.min_count = 10 /\ qc_in.min_maf = [num |-> 1, den |-> 5]
    /\ QcTotal = 10 /\ QcRef = 6 /\ QcAlt = 4

(***************************************************************************)
(* Properties of one worker.                                               *)
(***************************************************************************)
IsPrefix(a, b) == Len(a) <= Len(b) /\ SubSeq(b, 1, Len(a)) = a
\* the lines b holds after the lines of a
Added(a, b) == SubSeq(b, Len(a) + 1, Len(b))
CountLines(t) == Range(t.fp_ad) \cup Range(t.fp_dp) \cup Range(t.fp_oth)
Streams(t) == <<t.fp_ad, t.fp_dp, t.fp_oth>>
Counters(t) == <<t.nr_ad, t.nr_dp, t.nr_oth>>

Count4(c, smp) == IF smp \in DOMAIN c THEN c[smp] ELSE Zero4
RECURSIVE SumAccepted(_, _, _)
\* counter k of sample smp, summed over the tallies of the accepted SNPs
SumAccepted(acc, smp, k) ==
    IF acc = <<>> THEN 0 ELSE Count4(Head(acc), smp)[k] + SumAccepted(Tail(acc), smp, k)

\* C3: when a region's counting completes without a fatal error, for every
\* sample dp_count = ref + alt (+ 2 * dup unless no_dup_hap), alt_count = alt
\* (+ dup unless no_dup_hap) and oth_count = other, over the aggregator's totals,
\* which are the sums over the QC-accepted SNPs of this region alone; a sample
\* with no counts gets 0 for all three.
C3_DepthIdentity ==
    \A w \in Workers :
        LET t == th[w] IN
        (t.pc = "fet1_ret" /\ t.fet.ret >= 0) =>
            \A smp \in Range(conf.samples) :
                LET ref == SumAccepted(t.accepted, smp, 1)
                    alt == SumAccepted(t.accepted, smp, 2)
                    dup == SumAccepted(t.accepted, smp, 3)
                    oth == SumAccepted(t.accepted, smp, 4)
                    tot == Count4(t.mcnt.cell_cnt, smp)
                IN  /\ tot = <<ref, alt, dup, oth>>
                    /\ t.fet.cnt.dp[smp] =
                          tot[1] + tot[2] + (IF conf.no_dup_hap THEN 0 ELSE 2 * tot[3])
                    /\ t.fet.cnt.alt[smp] =
                          tot[2] + (IF conf.no_dup_hap THEN 0 ELSE tot[3])
                    /\ t.fet.cnt.oth[smp] = tot[4]

\* a region completed with duplicate-haplotype counting on: one sample with a
\* duplicate-haplotype observation, another with no counts at all
C3_Witness ==
    \E w \in Workers :
        LET t == th[w] IN
        /\ t.pc = "fet1_ret" /\ t.fet.ret >= 0 /\ ~conf.no_dup_hap
        /\ \E smp \in Range(conf.samples) : Count4(t.mcnt.cell_cnt, smp)[3] > 0
        /\ \E smp \in Range(conf.samples) : t.fet.cnt.dp[smp] + t.fet.cnt.oth[smp] = 0

\* the lines a region with these counts contributes to one stream
Contribution(r, cnt, kind) ==
    {<<r, i, kind[conf.samples[i]]>> : i \in
        {i \in 1..Len(conf.samples) :
            /\ cnt.dp[conf.samples[i]] + cnt.oth[conf.samples[i]] > 0
            /\ kind[conf.samples[i]] > 0}}

\* C4: the AD, DP and OTH streams and the nr_ad/nr_dp/nr_oth counters change
\* only in the step that ends a region whose counting returned without error,
\* and then each of the three streams receives its whole contribution for that
\* region; a region aborted by a fatal error has no line in any of the three.
C4_NoPartialRegion ==
    /\ [][\A w \in Workers :
            LET t == th[w]
                u == th'[w]
            IN  (Streams(u) # Streams(t) \/ Counters(u) # Counters(t)) =>
                    /\ t.pc = "fet1_ret" /\ t.fet.ret >= 0
                    /\ IsPrefix(t.fp_ad, u.fp_ad) /\ IsPrefix(t.fp_dp, u.fp_dp)
                    /\ IsPrefix(t.fp_oth, u.fp_oth)
                    /\ Range(Added(t.fp_ad, u.fp_ad))
                          = Contribution(t.reg_idx + 1, t.fet.cnt, t.fet.cnt.alt)
                    /\ Range(Added(t.fp_dp, u.fp_dp))
                          = Contribution(t.reg_idx + 1, t.fet.cnt, t.fet.cnt.dp)
                    /\ Range(Added(t.fp_oth, u.fp_oth))
                          = Contribution(t.reg_idx + 1, t.fet.cnt, t.fet.cnt.oth)]_vars
    /\ [](\A w \in Workers :
            th[w].aborted # 0 => \A line \in CountLines(th[w]) : line[1] # th[w].aborted)

\* a region aborted at its second SNP after its first SNP was accepted and folded
C4_Witness ==
    \E w \in Workers :
        LET t == th[w] IN
        /\ t.pc = "raised" /\ t.snp_i = 1 /\ t.accepted # <<>>
        /\ \E smp \in Range(conf.samples) : Count4(t.mcnt.cell_cnt, smp) # Zero4

\* the step of worker w that ends a region whose counting returned without error
EmitStep(t, u) == t.pc = "fet1_ret" /\ t.fet.ret >= 0 /\ u.pc = "loop"
SamplesIn(lines) == {line[2] : line \in Range(lines)}
NoRepeat(lines) == \A i, j \in 1..Len(lines) : lines[i] = lines[j] => i = j

\* C5: at the end of a region exactly the samples with dp_count + oth_count > 0
\* get records; such a sample gets an AD line iff alt_count > 0, a DP line iff
\* dp_count > 0, an OTH line iff oth_count > 0, each <<region position + 1,
\* sample position + 1, count>> and written once; nothing is written unless some
\* sample has DP or OTH above 0; every count in the streams is above 0 and every
\* index is 1-based.
C5_EmissionRule ==
    /\ [][\A w \in Workers :
            LET t == th[w]
                u == th'[w]
                cnt == t.fet.cnt
                ad == Added(t.fp_ad, u.fp_ad)
                dp == Added(t.fp_dp, u.fp_dp)
                oth == Added(t.fp_oth, u.fp_oth)
                S(i) == conf.samples[i]
            IN  EmitStep(t, u) =>
                  /\ IsPrefix(t.fp_ad, u.fp_ad) /\ IsPrefix(t.fp_dp, u.fp_dp)
                  /\ IsPrefix(t.fp_oth, u.fp_oth)
                  /\ NoRepeat(ad) /\ NoRepeat(dp) /\ NoRepeat(oth)
                  /\ SamplesIn(ad) \cup SamplesIn(dp) \cup SamplesIn(oth)
                        = {i \in 1..Len(conf.samples) : cnt.dp[S(i)] + cnt.oth[S(i)] > 0}
                  /\ \A i \in 1..Len(conf.samples) :
                        cnt.dp[S(i)] + cnt.oth[S(i)] > 0 =>
                          /\ i \in SamplesIn(ad) <=> cnt.alt[S(i)] > 0
                          /\ i \in SamplesIn(dp) <=> cnt.dp[S(i)] > 0
                          /\ i \in SamplesIn(oth) <=> cnt.oth[S(i)] > 0
                  /\ \A line \in Range(ad) :
                        line = <<t.reg_idx + 1, line[2], cnt.alt[S(line[2])]>>
                  /\ \A line \in Range(dp) :
                        line = <<t.reg_idx + 1, line[2], cnt.dp[S(line[2])]>>
                  /\ \A line \in Range(oth) :
                        line = <<t.reg_idx + 1, line[2], cnt.oth[S(line[2])]>>
                  /\ (ad # <<>> \/ dp # <<>> \/ oth # <<>>) =>
                        \E smp \in Range(conf.samples) : cnt.dp[smp] > 0 \/ cnt.oth[smp] > 0]_vars
    /\ [](\A w \in Workers : \A line \in CountLines(th[w]) :
            /\ line[3] > 0
            /\ line[1] \in 1..Len(th[w].reg_list)
            /\ line[2] \in 1..Len(conf.samples))

\* a region written with a sample that has a DP line and no AD line, and an AD
\* line of the other sample
C5_Witness ==
    \E w \in Workers :
        LET t == th[w] IN
        /\ t.fp_ad # <<>>
        /\ \E line \in Range(t.fp_dp) :
              \A a \in Range(t.fp_ad) : <<a[1], a[2]>> # <<line[1], line[2]>>

\* the positions of the worker while it is inside a region
InRegion == {"fet1", "sam", "read", "plp_ret", "fet1_ret", "raised"}
\* the regions the worker has reached
Reached(t) == t.reg_idx + (IF t.pc \in InRegion THEN 1 ELSE 0)

\* C6: the region stream holds exactly one line <<chrom, start, end - 1, name>>
\* per region the worker has reached, in region-list order, whatever the
\* region's SNPs; a count line's region already has its region line; a region
\* without SNPs gets its region line and no count line, and the worker goes on
\* to the next region.
C6_RegionMetadata ==
    /\ [](\A w \in Workers :
            LET t == th[w] IN
            t.pc # "start" =>
              /\ Len(t.fp_reg) = Reached(t)
              /\ \A k \in 1..Len(t.fp_reg) :
                    t.fp_reg[k] = <<t.reg_list[k].chrom, t.reg_list[k].start,
                                    t.reg_list[k].end - 1, t.reg_list[k].name>>
              /\ \A line \in CountLines(t) :
                    /\ line[1] <= Len(t.fp_reg)
                    /\ t.reg_list[line[1]].snp_list # <<>>)
    /\ [][\A w \in Workers :
            LET t == th[w]
                u == th'[w]
            IN  (u # t /\ t.pc = "loop" /\ t.reg_idx < Len(t.reg_list)
                 /\ t.reg_list[t.reg_idx + 1].snp_list = <<>>) =>
                    /\ u.pc = "loop" /\ u.reg_idx = t.reg_idx + 1
                    /\ Len(u.fp_reg) = Len(t.fp_reg) + 1
                    /\ Streams(u) = Streams(t) /\ Counters(u) = Counters(t)]_vars

\* a finished worker: a region without SNPs, then a region with count lines
C6_Witness ==
    \E w \in Workers :
        LET t == th[w] IN
        /\ t.pc = "done" /\ Len(t.fp_reg) = 2
        /\ t.reg_list[1].snp_list = <<>>
        /\ t.fp_dp # <<>>

\* C7: when fc_fet1 returns a negative code for region k the worker raises: no
\* later region gets a region line or a count line, what the streams held
\* before stays as it was, and thdata.ret stays -1 (the worker never reports
\* success).
C7_FatalStopsWorker ==
    /\ [][\A w \in Workers :
            LET t == th[w]
                u == th'[w]
            IN  /\ (u # t /\ t.pc = "fet1_ret" /\ t.fet.ret < 0) =>
                      /\ u.pc = "raised" /\ u.ret = -1
                      /\ u.fp_reg = t.fp_reg /\ Streams(u) = Streams(t)
                      /\ Counters(u) = Counters(t)
                /\ t.pc = "raised" => u = t]_vars
    /\ [](\A w \in Workers :
            LET t == th[w] IN
            (t.pc = "raised" \/ t.aborted # 0) =>
              /\ t.pc = "raised" /\ t.aborted = t.reg_idx + 1
              /\ t.ret = -1 /\ t.outcome # "returned"
              /\ Len(t.fp_reg) = t.aborted
              /\ \A line \in CountLines(t) : line[1] < t.aborted)

\* a worker stopped in its second region with count lines of its first
C7_Witness ==
    \E w \in Workers :
        LET t == th[w] IN
        /\ t.pc = "raised" /\ t.aborted = 2 /\ Len(t.reg_list) >= 2
        /\ t.fp_dp # <<>>

\* C8: a worker that failed on a fatal region error has reported a result to its
\* caller (regions processed, records written, a failure code), as a worker that
\* succeeded does.
C8_FailedWorkerReports ==
    \A w \in Workers : th[w].aborted # 0 => th[w].outcome = "returned"

\* C9: a SNP's pileup in which sam_fetch yielded no iterator for an alignment
\* file ends with a negative code.
C9_FetchFailureFatal ==
    \A w \in Workers :
        (th[w].pc = "plp_ret" /\ th[w].fetch_none) => th[w].plp_ret < 0

(***************************************************************************)
(* Properties of the workers side by side.                                 *)
(***************************************************************************)
\* the region indices in worker w's AD, DP and OTH shards
RegIdx(w) == {line[1] : line \in CountLines(th[w])}
\* the places <<worker, position in its chunk>> of region i of the full list
PlacesOf(i) ==
    {p \in Workers \X (1..Len(reg_all)) :
        p[2] <= Len(th[p[1]].gids) /\ th[p[1]].gids[p[2]] = i}

C13_StatisticsMatchOutput ==
    \A w \in Workers :
        LET t == th[w] IN
        /\ t.nr_ad = Len(t.fp_ad) /\ t.nr_dp = Len(t.fp_dp) /\ t.nr_oth = Len(t.fp_oth)
        /\ t.outcome = "returned" =>
              /\ t.ret = 0
              /\ t.nr_reg = Len(t.fp_reg) /\ t.nr_reg = Len(t.reg_list)

\* a worker returned from two regions with AD, DP and OTH lines
C13_Witness ==
    \E w \in Workers :
        LET t == th[w] IN
        /\ t.outcome = "returned" /\ t.nr_reg = 2
        /\ t.nr_ad > 0 /\ t.nr_dp > 0 /\ t.nr_oth > 0

\* C14: a SNP whose pileup returned a positive code is not pushed into the
\* aggregator and fc_fet1 goes on to the next SNP; a SNP whose pileup returned 0
\* is pushed once, its counters added to every unit's totals; a region whose
\* SNPs were all filtered returns without error with zero counts for every
\* sample, has its region line, gets no AD, DP or OTH line, and the worker goes
\* on to the next region.
C14_FilteredSnpSkipped ==
    /\ [][\A w \in Workers :
            LET t == th[w]
                u == th'[w]
            IN  /\ (u # t /\ t.pc = "plp_ret" /\ t.plp_ret > 0) =>
                      /\ u.mcnt = t.mcnt /\ u.accepted = t.accepted
                      /\ u.snp_i = t.snp_i + 1 /\ u.pc = "fet1"
                /\ (u # t /\ t.pc = "plp_ret" /\ t.plp_ret = 0) =>
                      /\ u.accepted = Append(t.accepted, t.snp_mcnt.cell_cnt)
                      /\ \A smp \in DOMAIN u.mcnt.cell_cnt :
                            u.mcnt.cell_cnt[smp] =
                                Add4(Count4(t.mcnt.cell_cnt, smp),
                                     Count4(t.snp_mcnt.cell_cnt, smp))
                      /\ u.snp_i = t.snp_i + 1 /\ u.pc = "fet1"
                /\ (u # t /\ t.pc = "fet1_ret" /\ t.fet.ret >= 0 /\ t.accepted = <<>>) =>
                      /\ Streams(u) = Streams(t) /\ Counters(u) = Counters(t)
                      /\ u.pc = "loop" /\ u.reg_idx = t.reg_idx + 1]_vars
    /\ [](\A w \in Workers :
            LET t == th[w] IN
            /\ t.pc \in {"fet1", "fet1_ret"} => Len(t.accepted) <= t.snp_i
            /\ (t.pc = "fet1_ret" /\ t.fet.ret >= 0 /\ t.accepted = <<>>) =>
                  /\ Len(t.fp_reg) = t.reg_idx + 1
                  /\ \A smp \in Range(conf.samples) :
                        /\ t.fet.cnt.alt[smp] = 0 /\ t.fet.cnt.dp[smp] = 0
                        /\ t.fet.cnt.oth[smp] = 0)

\* a region of two SNPs counted with the first SNP filtered and the second
\* pushed
C14_Witness ==
    \E w \in Workers :
        LET t == th[w] IN
        /\ t.pc = "fet1_ret" /\ t.fet.ret >= 0
        /\ Len(cur_reg(t).snp_list) = 2 /\ Len(t.accepted) = 1
        /\ \E smp \in Range(conf.samples) : t.fet.cnt.dp[smp] > 0

\* the unit a read is counted for: its cell barcode or the file's sample
UnitOf(t, read) ==
    IF conf.cell_tag # None THEN read.tags[conf.cell_tag] ELSE conf.samples[t.sam_i + 1]

\* C15: in a SNP's pileup a read that fails check_read is not passed to
\* push_read and changes nothing; for a read that passes, a push_read result of
\* -1 ends the pileup at once with a negative code, the tally as it was, no
\* stat() and no QC gate, and fc_fet1 then fails; any other negative result
\* drops the read alone and the read loop goes on; a read that push_read took
\* leaves the tally push_read returned.
C15_ReadOutcomes ==
    /\ [](\A w \in Workers :
            LET t == th[w] IN
            /\ t.pc = "read" =>
                  \A read \in ReadPool :
                      LET u == on_read(t, read) IN
                      IF check_read(read, conf) # 0 THEN u = t
                      ELSE LET r == snp_push_read(t.snp_mcnt, read, UnitOf(t, read), conf)
                           IN  /\ r.ret = -1 =>
                                     /\ u.pc = "plp_ret" /\ u.plp_ret < 0
                                     /\ u.snp_mcnt = t.snp_mcnt
                               /\ (r.ret < 0 /\ r.ret # -1) => u = t
                               /\ r.ret >= 0 => u = [t EXCEPT !.snp_mcnt = r.m]
            /\ (t.pc = "plp_ret" /\ t.plp_ret = -5) => t.snp_mcnt.tcount = Zero5)
    /\ [][\A w \in Workers :
            LET t == th[w]
                u == th'[w]
            IN  (u # t /\ t.pc = "plp_ret" /\ t.plp_ret < 0) =>
                    /\ u.pc = "fet1_ret" /\ u.fet.ret < 0
                    /\ u.snp_mcnt = t.snp_mcnt /\ u.mcnt = t.mcnt]_vars

\* a pileup ended by a fatal push_read after a read was counted
C15_Witness ==
    \E w \in Workers :
        LET t == th[w] IN
        /\ t.pc = "plp_ret" /\ t.plp_ret = -5
        /\ t.snp_mcnt.bcount # Zero5

\* C19: the tally's and the aggregator's counters are never negative; a region's
\* alt_count is at most its dp_count for every sample, with or without
\* duplicate-haplotype counting, so no sample has alt_count > 0 with dp_count +
\* oth_count <= 0; every AD line has a DP line of the same region and sample
\* with a count at least as large; every sample index written is in 1..number
\* of configured samples.
C19_AdWithinDp ==
    \A w \in Workers :
        LET t == th[w] IN
        /\ \A u \in DOMAIN t.snp_mcnt.cell_cnt :
              \A k \in 1..4 : t.snp_mcnt.cell_cnt[u][k] >= 0
        /\ \A u \in DOMAIN t.mcnt.cell_cnt : \A k \in 1..4 : t.mcnt.cell_cnt[u][k] >= 0
        /\ (t.pc = "fet1_ret" /\ t.fet.ret >= 0) =>
              \A smp \in Range(conf.samples) :
                  /\ t.fet.cnt.alt[smp] <= t.fet.cnt.dp[smp]
                  /\ ~(t.fet.cnt.alt[smp] > 0
                       /\ t.fet.cnt.dp[smp] + t.fet.cnt.oth[smp] <= 0)
        /\ \A a \in Range(t.fp_ad) :
              \E d \in Range(t.fp_dp) : d[1] = a[1] /\ d[2] = a[2] /\ d[3] >= a[3]
        /\ \A line \in CountLines(t) : line[2] \in 1..Len(conf.samples)

\* with duplicate-haplotype counting, an AD line whose DP line has a larger
\* count
C19_Witness ==
    \E w \in Workers :
        LET t == th[w] IN
        /\ ~conf.no_dup_hap /\ conf.umi_tag # None
        /\ \E a \in Range(t.fp_ad), d \in Range(t.fp_dp) :
              d[1] = a[1] /\ d[2] = a[2] /\ d[3] > a[3]

(***************************************************************************)
(* Properties of two runs of the worker.                                   *)
(***************************************************************************)
Over(t) == t.pc \in {"done", "raised"}
\* the position in the worker's list of the region of this name
RegPos(t, name) == CHOOSE k \in 1..Len(t.reg_list) : t.reg_list[k].name = name
\* place p is not after place q in the worker's order: regions in list order,
\* the SNPs of a region in list order, the alignment files in list order
PlaceLeq(t, p, q) ==
    \/ RegPos(t, p[1]) < RegPos(t, q[1])
    \/ p[1] = q[1] /\ p[2] < q[2]
    \/ p[1] = q[1] /\ p[2] = q[2] /\ p[3] <= q[3]
\* the lines of a stream are sorted by region index and, within a region, carry
\* strictly increasing sample indices
Sorted(lines) ==
    \A i, j \in 1..Len(lines) :
        i < j => \/ lines[i][1] < lines[j][1]
                 \/ lines[i][1] = lines[j][1] /\ lines[i][2] < lines[j][2]
\* what a run leaves behind: the four streams, the statistics, how it ended
Outcome(t) ==
    <<t.fp_reg, t.fp_ad, t.fp_dp, t.fp_oth, t.nr_reg, t.nr_ad, t.nr_dp, t.nr_oth,
      t.ret, t.outcome, t.aborted>>

\* C11: a worker takes its regions in list order and the SNPs of a region in list
\* order (the reads it consumed are in that order of places, and the region lines
\* are those of the list's regions in order); the AD, DP and OTH streams are each
\* sorted by non-decreasing region index and, within a region, by strictly
\* increasing sample index; two runs on the same region list, configuration,
\* alignment files and reads leave identical streams, statistics and result.
C11_ShardOrderDeterministic ==
    /\ \A w \in Workers :
          LET t == th[w] IN
          /\ \A i, j \in 1..Len(t.log) :
                i < j => PlaceLeq(t, t.log[i].place, t.log[j].place)
          /\ \A k \in 1..Len(t.fp_reg) : t.fp_reg[k] = region_line(t.reg_list[k])
          /\ Sorted(t.fp_ad) /\ Sorted(t.fp_dp) /\ Sorted(t.fp_oth)
    /\ (Cardinality(Workers) = 2 /\ Over(th[1]) /\ Over(th[2])
        /\ th[2].reg_obj = th[1].reg_obj) =>
          /\ th[2].log = th[1].log
          /\ Outcome(th[2]) = Outcome(th[1])

\* both runs finished on the same list of two regions, with two reads consumed
\* and the DP lines of two samples for one region
C11_Witness ==
    /\ Cardinality(Workers) = 2
    /\ th[1].pc = "done" /\ th[2].pc = "done"
    /\ th[2].reg_obj = th[1].reg_obj /\ Len(th[1].reg_obj) = 2
    /\ Len(th[2].log) = 2 /\ Len(th[2].fp_dp) = 2
    /\ th[2].fp_dp[1][1] = th[2].fp_dp[2][1]

(***************************************************************************)
(* Properties of check_read under two configurations.                      *)
(***************************************************************************)
\* mask b has every bit of mask a and at least one more
Wider(a, b) == a # b /\ \A i \in 0..FlagBits : HasBit(a, i) => HasBit(b, i)

\* the second configuration loosens the first in the varied threshold, reading
\* "wider flag mask" as "more bits" for both masks
LoosenedAsStated(e) ==
    \/ e.field = "min_mapq" /\ e.conf2.min_mapq < q_conf.min_mapq
    \/ e.field = "excl_flag" /\ Wider(q_conf.excl_flag, e.conf2.excl_flag)
    \/ e.field = "incl_flag" /\ Wider(q_conf.incl_flag, e.conf2.incl_flag)
    \/ e.field = "min_len" /\ e.conf2.min_len < q_conf.min_len

\* the second configuration loosens the first: a lower min_mapq or min_len, an
\* exclusion mask with fewer bits (none: no exclusion), an inclusion mask that is
\* switched off or, if one was configured, gets more bits
Loosened(e) ==
    \/ e.field = "min_mapq" /\ e.conf2.min_mapq < q_conf.min_mapq
    \/ e.field = "excl_flag" /\ Wider(e.conf2.excl_flag, q_conf.excl_flag)
    \/ e.field = "incl_flag" /\ q_conf.incl_flag # 0
          /\ (e.conf2.incl_flag = 0 \/ Wider(q_conf.incl_flag, e.conf2.incl_flag))
    \/ e.field = "min_len" /\ e.conf2.min_len < q_conf.min_len

\* C12 as stated: a read accepted under a configuration is accepted under every
\* configuration that differs from it by a lower min_mapq, a wider exclusion
\* mask, a wider inclusion mask or a lower min_len.
C12_WiderMasksMonotone ==
    \A i \in 1..Len(q_ret) :
        (LoosenedAsStated(q_ret[i]) /\ q_ret[i].first = 0) => q_ret[i].second = 0

\* C12 as the code has it: a read accepted under a configuration is accepted
\* under every configuration that differs from it by a lower min_mapq, a lower
\* min_len, an exclusion mask with fewer bits, or an inclusion mask switched off
\* or widened from a configured one; a wider exclusion mask, and an inclusion
\* mask switched on, can only reject more.
C12_FilterMonotone ==
    \A i \in 1..Len(q_ret) :
        LET e == q_ret[i] IN
        /\ (Loosened(e) /\ e.first = 0) => e.second = 0
        /\ (e.field = "excl_flag" /\ Wider(q_conf.excl_flag, e.conf2.excl_flag)
            /\ e.second = 0) => e.first = 0
        /\ (e.field = "incl_flag" /\ q_conf.incl_flag = 0 /\ e.second = 0) => e.first = 0

\* a read rejected by the inclusion mask and accepted under a wider one
C12_Witness ==
    /\ q_ret # <<>>
    /\ q_ret[1].field = "incl_flag" /\ Loosened(q_ret[1]) /\ q_ret[1].conf2.incl_flag # 0
    /\ q_ret[1].first = -4 /\ q_ret[1].second = 0

(***************************************************************************)
(* Properties of sam_fetch.                                                *)
(***************************************************************************)
\* what the file answers when asked for a name
Answer(name) == IF name \in DOMAIN f_in.sam THEN f_in.sam[name] ELSE "raise"
\* the other form of the name asked for: without its leading "chr", or with
\* "chr" put in front
OtherForm ==
    IF Len(f_in.chrom) >= 3 /\ f_in.chrom[1] = "c" /\ f_in.chrom[2] = "h"
       /\ f_in.chrom[3] = "r"
    THEN [i \in 1..(Len(f_in.chrom) - 3) |-> f_in.chrom[i + 3]]
    ELSE <<"c", "h", "r">> \o f_in.chrom

\* C16: sam_fetch makes one or two fetch attempts; the first asks for the given
\* name; a second is made exactly when the first raised or gave a result Python
\* counts as false, and asks for the other form of the name; both ask for the
\* interval from start - 1 to end; the call returns the iterator of the first
\* attempt that gave one and None when neither did; no exception comes out.
C16_FetchRetry ==
    \A i \in 1..Len(f_ret) :
        LET res == f_ret[i]
            interval == <<f_in.start - 1, f_in.end>>
        IN  /\ Len(res.tried) \in {1, 2}
            /\ res.tried[1] = <<f_in.chrom>> \o interval
            /\ Len(res.tried) = 2 <=> Answer(f_in.chrom) # "itr"
            /\ Len(res.tried) = 2 => res.tried[2] = <<OtherForm>> \o interval
            /\ res.itr \in {"itr", None}
            /\ res.itr = "itr" <=>
                  (Answer(f_in.chrom) = "itr" \/ Answer(OtherForm) = "itr")

\* a name without "chr" asked of a file that has it with "chr": the first
\* attempt raises, the second gives the iterator
C16_Witness ==
    /\ f_ret # <<>> /\ f_ret[1].itr = "itr" /\ Len(f_ret[1].tried) = 2
    /\ f_in.chrom = <<"1">> /\ Answer(f_in.chrom) = "raise"

(***************************************************************************)
(* Properties of check_read's codes.                                       *)
(***************************************************************************)
\* the seven conditions in check_read's order, TRUE where the read fails, and
\* the code of each
Failing ==
    <<q_read.mapq < q_conf.min_mapq,
      q_conf.excl_flag # 0 /\ SharesBit(q_read.flag, q_conf.excl_flag),
      q_conf.incl_flag # 0 /\ ~SharesBit(q_read.flag, q_conf.incl_flag),
      q_conf.no_orphan /\ HasBit(q_read.flag, 0) /\ ~HasBit(q_read.flag, 1),
      q_conf.cell_tag # None /\ q_conf.cell_tag \notin DOMAIN q_read.tags,
      q_conf.umi_tag # None /\ q_conf.umi_tag \notin DOMAIN q_read.tags,
      Len(q_read.positions) < q_conf.min_len>>
RejectionCodes == <<-2, -3, -4, -5, -11, -12, -21>>
FirstFailing == CHOOSE k \in 1..7 : Failing[k] /\ \A j \in 1..(k - 1) : ~Failing[j]

\* C17: for a read that fails qualification check_read returns the code of the
\* first condition it fails in the order mapping quality (-2), exclusion mask
\* (-3), inclusion mask (-4), orphan (-5), cell tag (-11), UMI tag (-12), aligned
\* length (-21), and 0 for a read that fails none; the seven codes are pairwise
\* distinct; check_read of core.py and check_read of utils/sam.py return the
\* same code.
C17_RejectionCodes ==
    /\ \A j, k \in 1..7 : RejectionCodes[j] = RejectionCodes[k] => j = k
    /\ \A i \in 1..Len(q_ret) :
          /\ q_ret[i].core = q_ret[i].sam
          /\ q_ret[i].core =
                IF \E k \in 1..7 : Failing[k] THEN RejectionCodes[FirstFailing] ELSE 0

\* an orphan read that also lacks the cell tag and is too short: the orphan
\* code is returned
C17_Witness ==
    /\ q_ret # <<>> /\ q_ret[1].core = -5
    /\ Failing[5] /\ Failing[7]

(***************************************************************************)
(* Properties of a region counted in two runs.                             *)
(***************************************************************************)
\* the lines of a stream that carry region index k
LinesOf(lines, k) == {line \in Range(lines) : line[1] = k}
\* the first run wrote the counts of the region at position k of its list
Completed1(k) == k <= th[1].reg_idx

\* C18: when a region starts the aggregator is bound to it with zero totals for
\* every configured unit, and when a SNP starts the tally is bound to it with
\* every counter cleared; a region counted in a second run, alone or in the same
\* list, with the reads the first run got at its SNPs, gets the counts the first
\* run wrote for it after whatever regions preceded it there: the same AD, DP
\* and OTH lines, and no error if the first run had none.
C18_NoCarryOver ==
    /\ \A w \in Workers :
          LET t == th[w] IN
          /\ (t.pc = "fet1" /\ t.snp_i = 0) =>
                /\ t.mcnt.region = cur_reg(t).name
                /\ t.mcnt.cell_cnt = [u \in Range(conf.samples) |-> Zero4]
          /\ (t.pc = "sam" /\ t.sam_i = 0) =>
                t.snp_mcnt = [snp |-> cur_snp(t), cell_cnt |-> <<>>, umi |-> << >>,
                              bcount |-> Zero5, tcount |-> Zero5]
    /\ (Cardinality(Workers) = 2 /\ th[2].pc = "fet1_ret"
        /\ Completed1(th[2].gids[th[2].reg_idx + 1])) =>
          LET t == th[2]
              k == t.gids[t.reg_idx + 1]
          IN  /\ t.fet.ret >= 0
              /\ LinesOf(th[1].fp_ad, k) = Contribution(k, t.fet.cnt, t.fet.cnt.alt)
              /\ LinesOf(th[1].fp_dp, k) = Contribution(k, t.fet.cnt, t.fet.cnt.dp)
              /\ LinesOf(th[1].fp_oth, k) = Contribution(k, t.fet.cnt, t.fet.cnt.oth)

\* the second region of the first run, counted there after a region with count
\* lines, counted alone in the second run
C18_Witness ==
    /\ Cardinality(Workers) = 2 /\ Len(reg_all) >= 2
    /\ th[2].pc = "fet1_ret" /\ th[2].fet.ret >= 0
    /\ th[2].reg_obj = <<reg_all[2]>>
    /\ LinesOf(th[1].fp_dp, 1) # {} /\ LinesOf(th[1].fp_dp, 2) # {}

(***************************************************************************)
(* Properties of the worker's life.                                        *)
(***************************************************************************)
\* C20: ret is -1 from the start and changes once, to 0, and then every region
\* of the list has been processed, the four output files are closed and the
\* alignment handles are closed and dropped; the output files are opened once,
\* at the start, and closed once, when the worker returns; the worker comes to
\* an end, and does so with ret = 0 unless a region hit a fatal error; on an
\* empty region list it writes nothing.
C20_WorkerLifecycle ==
    /\ [](\A w \in Workers :
            LET t == th[w] IN
            /\ t.ret \in {-1, 0}
            /\ t.pc = "start" <=> t.files = "unopened"
            /\ t.files = "closed" <=> t.pc = "done"
            /\ t.ret = 0 =>
                  /\ t.pc = "done" /\ t.files = "closed" /\ t.sam_list = <<>>
                  /\ t.reg_idx = Len(t.reg_list) /\ Len(t.fp_reg) = Len(t.reg_list)
            /\ t.pc = "done" => t.ret = 0
            /\ (t.pc = "done" /\ t.reg_list = <<>>) =>
                  t.fp_reg = <<>> /\ Streams(t) = <<<<>>, <<>>, <<>>>>)
    /\ [][\A w \in Workers :
            LET t == th[w]
                u == th'[w]
            IN  /\ u.ret # t.ret => (t.ret = -1 /\ u.ret = 0)
                /\ u.files # t.files =>
                      \/ t.files = "unopened" /\ u.files = "open"
                      \/ t.files = "open" /\ u.files = "closed"]_vars
    /\ <>[](\A w \in Workers :
              \/ th[w].pc = "done" /\ th[w].ret = 0
              \/ th[w].pc = "raised" /\ th[w].aborted # 0)

\* a worker returned from a list of regions after the files yielded all the
\* reads they had
C20_Witness ==
    \E w \in Workers :
        LET t == th[w] IN
        /\ t.pc = "done" /\ t.ret = 0 /\ t.files = "closed"
        /\ t.reg_list # <<>> /\ nreads = MaxReads

====
